---- MODULE Spec2Model ----
(***************************************************************************)
(* Run orchestration and cancellation layer of smart-cut-quote:            *)
(*   - NativeTerminator (nesting_engine/terminator.rs): a stop flag        *)
(*     (Arc<AtomicBool>) and a deadline (Arc<RwLock<Option<Instant>>>)     *)
(*     shared by every handle cloned from one terminator;                  *)
(*   - run_nesting / run_nesting_engine / run_nesting_integrated and the   *)
(*     CLI main: one optimization run from instance text to result.        *)
(*                                                                         *)
(* Spec    : threads calling the terminator's operations concurrently.     *)
(* RunSpec : one invocation of an entry point after another.               *)
(*                                                                         *)
(* Time is a global clock `now` (Instant::now()), advanced by Tick.        *)
(* RwLock critical sections hold no blocking call, so each is one step;    *)
(* no thread panics inside one, so the lock is never poisoned and every    *)
(* read()/write() takes its Ok branch.                                     *)
(***************************************************************************)
EXTENDS Integers, Sequences, FiniteSets, TLC

\* ------------------------------------------------------------------ bounds
NThreads == 2      \* threads holding terminator handles
MaxCells == 2      \* cells the heap of terminator states can hold
MaxTime == 2       \* last clock value
MaxDur == 1        \* longest duration handed to new_timeout
MaxPrinted == 1    \* TIMEOUT_PRINTED is followed up to this value
MaxResets == 1     \* reset() calls per terminator

Threads == 1..NThreads
Cells == 1..MaxCells
Durations == 0..MaxDur

\* ------------------------------------------------- Option<Instant>, cells
\* Option<T>: None is the empty sequence, Some(v) the one-element sequence.
None == << >>
Some(v) == << v >>
IsSome(o) == o # None
Unwrap(o) == o[1]

\* NativeTerminator::new(): stop = false, deadline = None.
TermNew == [stop |-> FALSE, deadline |-> None]

\* terminate(): stop.store(true).
TerminateFlip(c) == [c EXCEPT !.stop = ~c.stop]
TerminateEffect(c) == [c EXCEPT !.stop = TRUE]

\* The first check of kill() / is_terminated(): stop.load().
StopLoadIgnored(c) == FALSE
StopLoad(c) == c.stop

\* The second check of kill() / is_terminated(), under the read lock:
\* Some(timeout) => Instant::now() > timeout; None => false.
DeadlinePassedInclusive(c, n) == IF IsSome(c.deadline) THEN n >= Unwrap(c.deadline) ELSE FALSE
DeadlinePassed(c, n) == IF IsSome(c.deadline) THEN n > Unwrap(c.deadline) ELSE FALSE

\* kill() and is_terminated() run on one unchanging cell at clock n.
KillValueFlagOnly(c, n) == StopLoad(c)
KillValue(c, n) == IF StopLoad(c) THEN TRUE ELSE DeadlinePassed(c, n)
IsTerminatedValue(c, n) == IF StopLoad(c) THEN TRUE ELSE DeadlinePassed(c, n)

\* new_timeout(): the presence check under the read lock ...
DeadlineAlreadySetNever(c) == FALSE
DeadlineAlreadySet(c) == IsSome(c.deadline)
\* ... and the write under the write lock: Some(Instant::now() + duration).
InstallDeadlineClearStop(c, n, d) == [c EXCEPT !.deadline = Some(n + d), !.stop = FALSE]
InstallDeadline(c, n, d) == [c EXCEPT !.deadline = Some(n + d)]

\* new_timeout() run without interleaving (the caller is the only thread).
NewTimeoutValue(c, n, d) == IF DeadlineAlreadySet(c) THEN c ELSE InstallDeadline(c, n, d)

\* reset(): stop.store(false), then *deadline = None under the write lock.
ResetStopKeep(c) == c
ResetStopEffect(c) == [c EXCEPT !.stop = FALSE]
ResetDeadlineEffect(c) == [c EXCEPT !.deadline = None]

\* timeout_at(): the deadline as read under the read lock.
TimeoutAtValue(c) == c.deadline

\* TIMEOUT_PRINTED.fetch_add(1), followed up to MaxPrinted.
BumpPrinted(p) == IF p < MaxPrinted THEN p + 1 ELSE p

\* -------------------------------------------------------- instance text
MaxSegs == 2            \* runs of equally wide characters in an instance text
MaxOptArms == 2         \* new_timeout calls the optimizer issues in one run
PrefixLimit == 500      \* bytes of the text echoed after a parse error
DefaultTimeLimit == 300 \* input.time_limit.or(Some(300))
CliDefaultTimeout == 300

\* A text is a sequence of runs [n, w]: n characters of w bytes each (UTF-8:
\* one to four bytes a character).
SegCounts == {1, 499, 500}
CharWidths == 1..4
Segs == [n : SegCounts, w : CharWidths]
RECURSIVE TextsUpTo(_)
TextsUpTo(k) == IF k = 0 THEN { << >> }
                ELSE TextsUpTo(k - 1) \cup { Append(t, g) : t \in { x \in TextsUpTo(k - 1) : Len(x) = k - 1 }, g \in Segs }
Texts == TextsUpTo(MaxSegs)

\* str::len(): the length in bytes.
RECURSIVE ByteLen(_)
ByteLen(text) == IF text = << >> THEN 0 ELSE Head(text).n * Head(text).w + ByteLen(Tail(text))

\* str::is_char_boundary(i): 0 and len are boundaries, an index past len is
\* not, and inside a run every w-th byte starts a character.
RECURSIVE IsCharBoundary(_, _)
IsCharBoundary(text, i) ==
    IF text = << >> THEN i = 0
    ELSE LET span == Head(text).n * Head(text).w
         IN IF i < span THEN i % Head(text).w = 0
            ELSE IsCharBoundary(Tail(text), i - span)

Min(a, b) == IF a < b THEN a ELSE b

\* &json_str[..json_str.len().min(500)]: slicing off a character boundary panics.
PrefixSlicePanics(text) == ~IsCharBoundary(text, Min(ByteLen(text), PrefixLimit))

\* ------------------------------------------------------- results, errors
Ok == [kind |-> "ok", err |-> << >>]
Err(e) == [kind |-> "err", err |-> e]
Panic(e) == [kind |-> "panic", err |-> e]

\* anyhow: .context(c) puts c in front of the cause; "{}" shows the outermost
\* message only.
WithContext(c, cause) == << c >> \o cause
DisplayAnyhow(e) == << Head(e) >>

MalformedContext == "not a valid strip packing instance (ExtSPInstance)"
ImportContext == "Failed to import instance"
ParseError == << "serde_json::Error" >>
ImportError == << "jagua_rs import error" >>
SliceAbort == << "byte index is not a char boundary" >>
OptimizerAbort == << "optimizer panicked" >>

\* JoinError's Display for a panicked task.
DisplayJoinError(e) == << "task panicked" >>

\* run_nesting (smart-cut-quote) when serde_json::from_str fails: the map_err
\* closure prints the error and a prefix of the text, then .context(..)?.
DeserFailure(text) ==
    IF PrefixSlicePanics(text) THEN Panic(SliceAbort)
    ELSE Err(WithContext(MalformedContext, ParseError))

\* run_nesting (refactor_sparrow_rust) when it fails: .context(..)? alone.
DeserFailureCore(text) == Err(WithContext(MalformedContext, ParseError))

\* run_nesting_engine: .map_err(|e| format!("Nesting failed: {}", e))
FormatNestingFailedAsJoin(e) == << "Task join error: " >> \o DisplayAnyhow(e)
FormatNestingFailed(e) == << "Nesting failed: " >> \o DisplayAnyhow(e)
\* run_nesting_integrated: .map_err(|e| format!("Task join error: {}", e))
FormatJoinError(e) == << "Task join error: " >> \o DisplayJoinError(e)

\* The `?` after a failed step: the error is returned, the step is not repeated.
AfterFailureRetry(step) == step
AfterFailure(step) == "returned"

\* The CLI's terminator, NativeTerminator of sparroWASM::native::terminator:
\* created empty; a deadline is set only while none is set; kill() is true iff
\* a stop was requested or a set deadline has passed.
NativeTerminatorNew == [stop |-> FALSE, deadline |-> None]
NativeNewTimeout(c, n, d) == IF IsSome(c.deadline) THEN c ELSE [c EXCEPT !.deadline = Some(n + d)]
NativeKill(c, n) == c.stop \/ (IsSome(c.deadline) /\ n > Unwrap(c.deadline))

\* ---------------------------------------------------------- phase budgets
\* f32 has a 24-bit significand. A ratio is m * 2^-24 with m < 2^24; the
\* products below are kept in units of 2^-24 s.
SigBits == 24
Half == 12
Limb == 2^Half

\* The ratio constants of sparrow::consts are inputs here: pairs of f32 values
\* (as significands m) with r_explore + r_compress <= 1.
\* 13421773 * 2^-24 is 0.8f32 and 3355443 * 2^-24 is 1.0f32 - 0.8f32.
RatioPairs == { << 13421773, 3355443 >>, << 8388608, 8388608 >>, << 12582912, 4194304 >> }

\* Seconds a caller passes as time_limit (each exact as an f32).
Limits == 1..8 \cup {10, 60, 300, 600}

\* The exact product secs * m as hi * 2^12 + lo.
MulWide(secs, m) ==
    LET p1 == secs * (m \div Limb)
        p0 == secs * (m % Limb)
    IN [hi |-> p1 + (p0 \div Limb), lo |-> p0 % Limb]

RECURSIVE ShiftFor(_, _)
ShiftFor(hi, s) == IF hi < 2^(Half + s) THEN s ELSE ShiftFor(hi, s + 1)

\* Round to nearest, ties to even: q + rem/den with 0 <= rem < den.
RoundHalfEven(q, rem, den) ==
    IF 2 * rem > den \/ (2 * rem = den /\ q % 2 = 1) THEN q + 1 ELSE q

\* rhs * self.as_secs_f32(): the f32 product, rounded to 24 significant bits,
\* as [q, s] with value q * 2^s * 2^-24 s.
MulF32(secs, m) ==
    LET w == MulWide(secs, m)
        s == ShiftFor(w.hi, 0)
        q == w.hi * 2^(Half - s) + (w.lo \div 2^s)
    IN [q |-> RoundHalfEven(q, w.lo % 2^s, 2^s), s |-> s]

\* The nanoseconds of fr * 2^-24 s (fr < 2^24): fr * 5^9 / 2^15, rounded.
NanosOf(fr) ==
    LET a == fr \div 2^15
        c == (fr % 2^15) * 625
        t == (c % 2^15) * 3125
    IN RoundHalfEven(a * 1953125 + (c \div 2^15) * 3125 + (t \div 2^15), t % 2^15, 2^15)

\* Duration::from_secs_f32
FromSecsF32(v) ==
    LET one == 2^(SigBits - v.s)
        n == NanosOf((v.q % one) * 2^v.s)
    IN IF n = 1000000000 THEN [secs |-> (v.q \div one) + 1, nanos |-> 0]
       ELSE [secs |-> v.q \div one, nanos |-> n]

\* Duration::from_secs(secs).mul_f32(ratio)
MulDurF32(secs, m) == FromSecsF32(MulF32(secs, m))

DefaultOverall == 600

\* let (explore_dur, compress_dur) = match config.time_limit { .. }
PlanBudgets(limit, r) ==
    LET overall == IF IsSome(limit) THEN Unwrap(limit) ELSE DefaultOverall
    IN [expl |-> MulDurF32(overall, r[1]), cmpr |-> MulDurF32(overall, r[2]), ratios |-> r]

NoPhases == [expl |-> [secs |-> 0, nanos |-> 0], cmpr |-> [secs |-> 0, nanos |-> 0], ratios |-> << 0, 0 >>]

\* Duration + Duration, Duration <= Duration
DurAdd(a, b) ==
    IF a.nanos + b.nanos >= 1000000000
       THEN [secs |-> a.secs + b.secs + 1, nanos |-> a.nanos + b.nanos - 1000000000]
       ELSE [secs |-> a.secs + b.secs, nanos |-> a.nanos + b.nanos]
DurLeq(a, b) == a.secs < b.secs \/ (a.secs = b.secs /\ a.nanos <= b.nanos)
DurSecs(n) == [secs |-> n, nanos |-> 0]

\* ------------------------------------------------------ result reducer
MaxItems == 2           \* item types of an instance
MaxQty == 2             \* requested quantity of an item type
MaxPlaced == 3          \* placed-item records of a solution

\* SPInstance: items as (item, quantity) pairs, item ids 0..n-1 in order, and
\* the fixed strip height. Areas and lengths are small whole numbers.
Areas == {1, 3}
Heights == {0, 2}
Widths == {0, 1, 4}
ItemOf(i, e) == [id |-> i - 1, qty |-> e.qty, area |-> e.area]
ItemLists == UNION { { [i \in 1..n |-> ItemOf(i, f[i])] : f \in [1..n -> [qty : 0..MaxQty, area : Areas]] } : n \in 0..MaxItems }
Instances == [items : ItemLists, fixed_height : Heights]

\* SPSolution: the placed items in the order layout_snapshot.placed_items
\* iterates them, and the strip width. A record may name an id that no item of
\* the instance has (id MaxItems). Rotations are in quarter turns.
PlacedOf(i) == [item_id |-> i, rot |-> i % 2, x |-> 5 * i, y |-> i + 1]
PlacedLists == UNION { [1..n -> { PlacedOf(i) : i \in 0..MaxItems }] : n \in 0..MaxPlaced }
Solutions == [placed_items : PlacedLists, strip_width : Widths]

\* The optimizer lays items out inside the strip without overlap: the placed
\* items of the instance cover no more than the strip.
RECURSIVE AreaOf(_, _)
AreaOf(items, id) ==
    IF items = << >> THEN 0
    ELSE IF Head(items).id = id THEN Head(items).area ELSE AreaOf(Tail(items), id)
RECURSIVE PlacedArea(_, _)
PlacedArea(placed, items) ==
    IF placed = << >> THEN 0 ELSE AreaOf(items, Head(placed).item_id) + PlacedArea(Tail(placed), items)
FitsStrip(solution, instance) ==
    PlacedArea(solution.placed_items, instance.items) <= solution.strip_width * instance.fixed_height

\* d_transf.rotation().to_degrees(): radians (quarter turns here) to degrees.
ToDegrees(quarters) == 90 * quarters

\* for (_key, placed_item) in layout_snapshot.placed_items.iter() { layouts.push(..) }
LayoutsReversed(placed) ==
    [k \in 1..Len(placed) |->
        [item_id |-> placed[Len(placed) + 1 - k].item_id,
         rotation_degrees |-> ToDegrees(placed[Len(placed) + 1 - k].rot),
         position_x |-> placed[Len(placed) + 1 - k].x,
         position_y |-> placed[Len(placed) + 1 - k].y]]
Layouts(placed) ==
    [k \in 1..Len(placed) |->
        [item_id |-> placed[k].item_id,
         rotation_degrees |-> ToDegrees(placed[k].rot),
         position_x |-> placed[k].x,
         position_y |-> placed[k].y]]

\* instance.items.iter().map(|(item, qty)| area * qty).sum()
RECURSIVE TotalItemArea(_)
TotalItemArea(items) ==
    IF items = << >> THEN 0 ELSE Head(items).area * Head(items).qty + TotalItemArea(Tail(items))

\* instance.total_item_qty()
RECURSIVE TotalItemQty(_)
TotalItemQty(items) == IF items = << >> THEN 0 ELSE Head(items).qty + TotalItemQty(Tail(items))

\* utilization, a ratio num / den: total_item_area / strip_area, or 0.
Utilization(items, width, height) ==
    IF width * height > 0 THEN [num |-> TotalItemArea(items), den |-> width * height]
    ELSE [num |-> 0, den |-> 1]

\* if total_items_placed < total_requested { "partial" } else { "complete" }
StatusOf(placed, requested) == IF placed < requested THEN "partial" ELSE "complete"

\* placed_counts.get(&item.id).copied().unwrap_or(0)
PlacedCountAnyId(layouts, id) == Len(layouts)
PlacedCount(layouts, id) == Cardinality({ k \in 1..Len(layouts) : layouts[k].item_id = id })

\* usize::saturating_sub
SaturatingSubOffByOne(a, b) == IF a >= b THEN a - b + 1 ELSE 0
SaturatingSub(a, b) == IF a > b THEN a - b ELSE 0

Repeat(v, n) == [k \in 1..n |-> v]

\* for (item, requested_qty) in instance.items.iter() { .. push(item.id) .. }
RECURSIVE UnplacedIds(_, _)
UnplacedIds(items, layouts) ==
    IF items = << >> THEN << >>
    ELSE Repeat(Head(items).id, SaturatingSub(Head(items).qty, PlacedCount(layouts, Head(items).id)))
         \o UnplacedIds(Tail(items), layouts)

\* NestingOutput::from_solution
FromSolution(solution, instance) ==
    LET layouts == Layouts(solution.placed_items)
        total_requested == TotalItemQty(instance.items)
    IN [strip_width |-> solution.strip_width,
        strip_height |-> instance.fixed_height,
        total_items_placed |-> Len(layouts),
        layouts |-> layouts,
        utilization |-> Utilization(instance.items, solution.strip_width, instance.fixed_height),
        status |-> Some(StatusOf(Len(layouts), total_requested)),
        items_requested |-> Some(total_requested),
        unplaced_item_ids |-> UnplacedIds(instance.items, layouts),
        svg_string |-> None]

\* -------------------------------------------------- graphic postprocessor
\* SVG text is a sequence of characters; the eight characters viewBox= are
\* kept together as one element.
MaxFields == 4          \* whitespace-separated fields inside a viewBox value
VB == "viewBox="
QUOTE == "\""
DigitChars == << "0", "1", "2", "3", "4", "5", "6", "7", "8", "9" >>
IsDigit(c) == \E d \in 1..10 : DigitChars[d] = c
DigitVal(c) == (CHOOSE d \in 1..10 : DigitChars[d] = c) - 1
IsSpace(c) == c \in { " ", "\t" }

\* Texts the function is applied to: what stands before the attribute, the
\* attribute (well formed, unterminated, or a quoted value without viewBox=),
\* its fields and how they are spaced, and what follows.
FieldTexts == { << "0" >>, << "1", "0", "0" >>, << "5", "0" >>, << "-", "5" >>, << "x" >> }
FieldLists == UNION { [1..n -> FieldTexts] : n \in 0..MaxFields }
RECURSIVE JoinFields(_, _)
JoinFields(fields, sep) ==
    IF fields = << >> THEN << >>
    ELSE IF Len(fields) = 1 THEN Head(fields)
    ELSE Head(fields) \o sep \o JoinFields(Tail(fields), sep)
Spacings == { "plain", "padded" }
ValueText(fields, spacing) ==
    IF spacing = "plain" THEN JoinFields(fields, << " " >>)
    ELSE << " " >> \o JoinFields(fields, << " ", "\t" >>) \o << "\t" >>
Shapes == { "attribute", "unterminated", "no_name" }
AttributeText(shape, value) ==
    CASE shape = "attribute" -> << VB, QUOTE >> \o value \o << QUOTE >>
      [] shape = "unterminated" -> << VB, QUOTE >> \o value
      [] shape = "no_name" -> << QUOTE >> \o value \o << QUOTE >>
LaterAttribute == << VB, QUOTE, "0", " ", "0", " ", "5", " ", "5", QUOTE >>
Surroundings ==
    { [pre |-> << >>, post |-> << >>],
      [pre |-> << "x", " " >>, post |-> << " ", "x" >>],
      [pre |-> << "x" >>, post |-> << " " >> \o LaterAttribute \o << "x" >>],
      [pre |-> << VB, QUOTE, QUOTE, " " >>, post |-> << >>] }
Margins == { 0, 10, 50 }

\* str::split_whitespace
RECURSIVE SplitFrom(_, _, _)
SplitFrom(text, cur, acc) ==
    IF text = << >> THEN (IF cur = << >> THEN acc ELSE Append(acc, cur))
    ELSE IF IsSpace(Head(text))
         THEN SplitFrom(Tail(text), << >>, IF cur = << >> THEN acc ELSE Append(acc, cur))
         ELSE SplitFrom(Tail(text), Append(cur, Head(text)), acc)
SplitWhitespace(text) == SplitFrom(text, << >>, << >>)

\* str::parse::<f64>, for whole numbers: an optional minus sign and digits.
RECURSIVE DigitsValue(_, _)
DigitsValue(ds, acc) == IF ds = << >> THEN acc ELSE DigitsValue(Tail(ds), 10 * acc + DigitVal(Head(ds)))
AllDigits(ds) == ds # << >> /\ \A k \in 1..Len(ds) : IsDigit(ds[k])
ParseF64Lenient(field) ==
    IF AllDigits(field) THEN Some(DigitsValue(field, 0))
    ELSE IF field # << >> /\ Head(field) = "-" /\ AllDigits(Tail(field)) THEN Some(0 - DigitsValue(Tail(field), 0))
    ELSE Some(0)
ParseF64(field) ==
    IF AllDigits(field) THEN Some(DigitsValue(field, 0))
    ELSE IF field # << >> /\ Head(field) = "-" /\ AllDigits(Tail(field)) THEN Some(0 - DigitsValue(Tail(field), 0))
    ELSE None

\* format!("{}", f64) of a whole number
RECURSIVE NatDigits(_)
NatDigits(n) == IF n < 10 THEN << DigitChars[n + 1] >> ELSE NatDigits(n \div 10) \o << DigitChars[(n % 10) + 1] >>
FormatF64(v) == IF v < 0 THEN << "-" >> \o NatDigits(0 - v) ELSE NatDigits(v)

\* Regex viewBox="([^"]+)": the leftmost match, as [start, end] (end: the
\* closing quote), or None.
MatchStarts(text) ==
    { i \in 1..Len(text) :
        /\ text[i] = VB
        /\ i + 2 <= Len(text)
        /\ text[i + 1] = QUOTE
        /\ text[i + 2] # QUOTE
        /\ \E j \in (i + 3)..Len(text) : text[j] = QUOTE }
Least(S) == CHOOSE x \in S : \A y \in S : x <= y
Captures(text) ==
    IF MatchStarts(text) = {} THEN None
    ELSE LET i == Least(MatchStarts(text))
         IN Some([start |-> i, end |-> Least({ j \in (i + 3)..Len(text) : text[j] = QUOTE })])

\* Regex::replace (the first match) and Regex::replace_all.
RECURSIVE ReplaceEvery(_, _)
ReplaceEvery(text, new) ==
    IF Captures(text) = None THEN text
    ELSE LET m == Unwrap(Captures(text))
         IN SubSeq(text, 1, m.start - 1) \o new \o ReplaceEvery(SubSeq(text, m.end + 1, Len(text)), new)
ReplaceFirst(text, new) ==
    IF Captures(text) = None THEN text
    ELSE LET m == Unwrap(Captures(text))
         IN SubSeq(text, 1, m.start - 1) \o new \o SubSeq(text, m.end + 1, Len(text))

\* format!("viewBox=\"{} {} {} {}\"", ..)
NewViewbox(min_x, min_y, width, height, margin) ==
    << VB, QUOTE >> \o FormatF64(min_x - margin) \o << " " >> \o FormatF64(min_y - margin) \o << " " >>
       \o FormatF64(width + 2 * margin) \o << " " >> \o FormatF64(height + 2 * margin) \o << QUOTE >>

\* expand_svg_viewbox
ExpandSvgViewbox(svg, margin) ==
    LET caps == Captures(svg)
    IN IF IsSome(caps)
       THEN LET viewbox_str == SubSeq(svg, Unwrap(caps).start + 2, Unwrap(caps).end - 1)
                parts == SplitWhitespace(viewbox_str)
            IN IF Len(parts) = 4 /\ \A k \in 1..4 : IsSome(ParseF64(parts[k]))
               THEN ReplaceFirst(svg, NewViewbox(Unwrap(ParseF64(parts[1])), Unwrap(ParseF64(parts[2])),
                                                 Unwrap(ParseF64(parts[3])), Unwrap(ParseF64(parts[4])), margin))
               ELSE svg
       ELSE svg

\* ---------------------------------------------------- sparrow config
\* SparrowConfig as run_nesting touches it: the two phase configurations and
\* min_item_separation. DEFAULT_SPARROW_CONFIG belongs to the sparrow crate;
\* its values are taken from small sets.
MaxWorkers == 2
CapDefault == "DEFAULT_MAX_CONSEQ_FAILS_EXPL"
FailureBased(ratio) == << "FailureBased", ratio >>
DecayDefault == FailureBased("DEFAULT_FAIL_DECAY_RATIO_CMPR")
SeparatorDefault == [n_workers |-> 0, strike_limit |-> "default", iter_no_imprv_limit |-> "default"]
DefaultSparrowConfigs ==
    { [expl_cfg |-> [time_limit |-> "default", max_conseq_failed_attempts |-> cap,
                     separator_config |-> SeparatorDefault],
       cmpr_cfg |-> [time_limit |-> "default", shrink_decay |-> decay,
                     separator_config |-> SeparatorDefault],
       min_item_separation |-> None] :
        cap \in { None, Some("other") }, decay \in { << "TimeBased" >>, FailureBased("other") } }

\* sparrow_config.min_item_separation = Some(1.0), smart-cut-quote only.
Separation(kind, sc) == IF kind = "tauri" THEN [sc EXCEPT !.min_item_separation = Some(1)] ELSE sc

\* The phase time limits and the worker counts.
LimitsAndWorkers(sc, budgets, n_workers) ==
    [sc EXCEPT !.expl_cfg.time_limit = budgets.expl,
               !.cmpr_cfg.time_limit = budgets.cmpr,
               !.expl_cfg.separator_config.n_workers = n_workers,
               !.cmpr_cfg.separator_config.n_workers = n_workers]

\* "Optimize for speed over quality", smart-cut-quote only.
SeparatorLimits(kind, sc) ==
    IF kind = "tauri"
       THEN [sc EXCEPT !.expl_cfg.separator_config.strike_limit = 3,
                       !.expl_cfg.separator_config.iter_no_imprv_limit = 50,
                       !.cmpr_cfg.separator_config.strike_limit = 2,
                       !.cmpr_cfg.separator_config.iter_no_imprv_limit = 25]
       ELSE sc

\* if config.use_early_termination { .. }
EarlyTerminationAlways(sc, use_early_termination) ==
    [sc EXCEPT !.expl_cfg.max_conseq_failed_attempts = Some(CapDefault),
               !.cmpr_cfg.shrink_decay = DecayDefault]
EarlyTermination(sc, use_early_termination) ==
    IF use_early_termination
       THEN [sc EXCEPT !.expl_cfg.max_conseq_failed_attempts = Some(CapDefault),
                       !.cmpr_cfg.shrink_decay = DecayDefault]
       ELSE sc

\* run_nesting from `let mut sparrow_config = DEFAULT_SPARROW_CONFIG` to the
\* early-termination block.
BuildSparrowConfig(kind, defaults, config, ratios) ==
    EarlyTermination(
        SeparatorLimits(kind,
            LimitsAndWorkers(Separation(kind, defaults), PlanBudgets(config.time_limit, ratios), config.n_workers)),
        config.use_early_termination)

\* ------------------------------------------------- random source, runs
MaxSeed == 2            \* seeds 0..MaxSeed, given by the caller or drawn at random
Seeds == 0..MaxSeed

\* let rng = match config.seed { Some(seed) => seed_from_u64(seed),
\*                                None => seed_from_u64(rand::random()) }
SeedUsedAlwaysDrawn(seed, drawn) == drawn
SeedUsed(seed, drawn) == IF IsSome(seed) THEN Unwrap(seed) ELSE drawn

\* The seed named in the log line of either branch: info!("using seed: {}",
\* seed) and warn!("no seed provided, using: {}", seed).
SeedLoggedStale(seed, drawn) == IF IsSome(seed) THEN Unwrap(seed) ELSE 0
SeedLogged(seed, drawn) == IF IsSome(seed) THEN Unwrap(seed) ELSE drawn
SeedLogLevel(seed) == IF IsSome(seed) THEN "Info" ELSE "Warn"

\* log::LevelFilter: a record passes when its level is at most the filter.
LevelRank(l) == CASE l = "Error" -> 1 [] l = "Warn" -> 2 [] l = "Info" -> 3 [] l = "Debug" -> 4 [] l = "Trace" -> 5
Enabled(level, filter) == LevelRank(level) <= LevelRank(filter)
\* .level(log::LevelFilter::Info) of the engine's init_logger; the CLI's
\* `if args.verbose { Debug } else { Info }`.
LevelFilterOf(e, verbose) == IF e = "cli" /\ verbose THEN "Debug" ELSE "Info"

\* The requested units of an instance, one id per unit.
RECURSIVE Units(_)
Units(items) == IF items = << >> THEN << >> ELSE Repeat(Head(items).id, Head(items).qty) \o Units(Tail(items))

\* optimize(instance, rng, ..): here a function of the instance and the state
\* of the random source alone, which decides order, rotation and position.
Optimize(instance, rng) ==
    LET u == Units(instance.items)
        n == Len(u)
    IN [placed_items |-> [k \in 1..n |->
                            LET id == u[((k + rng - 1) % n) + 1]
                            IN [item_id |-> id, rot |-> (k + rng) % 2, x |-> 5 * k + rng, y |-> id + 1]],
        strip_width |-> n + rng]

\* One run from config and instance to the report: run_nesting, from_solution.
RunReport(instance, seed, drawn) == FromSolution(Optimize(instance, SeedUsed(seed, drawn)), instance)

\* ------------------------------------------------------ report as JSON
\* A JSON object is the sequence of its members [k, v] in the order serde
\* writes the struct's fields. The two NestingOutput structs differ in
\* svg_string, which only the Tauri one has.
JNull == [t |-> "null", v |-> << >>]
JVal(x) == [t |-> "value", v |-> x]
Member(k, v) == << [k |-> k, v |-> v] >>

\* #[serde(skip_serializing_if = "Option::is_none")], and the field without it
OptionMemberWithNull(k, o) == IF IsSome(o) THEN Member(k, JVal(Unwrap(o))) ELSE Member(k, JNull)
OptionMember(k, o) == IF IsSome(o) THEN Member(k, JVal(Unwrap(o))) ELSE << >>
\* #[serde(skip_serializing_if = "Vec::is_empty", default)]
VecMember(k, xs) == IF xs = << >> THEN << >> ELSE Member(k, JVal(xs))

\* #[derive(Serialize)] for NestingOutput
Serialize(kind, r) ==
    Member("instance_name", JVal(r.instance_name))
    \o Member("strip_width", JVal(r.strip_width))
    \o Member("strip_height", JVal(r.strip_height))
    \o Member("total_items_placed", JVal(r.total_items_placed))
    \o Member("layouts", JVal(r.layouts))
    \o Member("utilization", JVal(r.utilization))
    \o Member("computation_time_secs", JVal(r.computation_time_secs))
    \o OptionMember("status", r.status)
    \o OptionMember("items_requested", r.items_requested)
    \o VecMember("unplaced_item_ids", r.unplaced_item_ids)
    \o (IF kind = "tauri" THEN OptionMember("svg_string", r.svg_string) ELSE << >>)

HasMember(json, k) == \E i \in 1..Len(json) : json[i].k = k
MemberOf(json, k) == json[CHOOSE i \in 1..Len(json) : json[i].k = k].v

\* #[derive(Deserialize)]: a missing or null Option field is None, a missing
\* unplaced_item_ids is Vec::default().
OptionField(json, k) ==
    IF HasMember(json, k) /\ MemberOf(json, k).t # "null" THEN Some(MemberOf(json, k).v) ELSE None
VecFieldDefault(json, k) == IF HasMember(json, k) THEN MemberOf(json, k).v ELSE << >>
Deserialize(kind, json) ==
    [instance_name |-> MemberOf(json, "instance_name").v,
     strip_width |-> MemberOf(json, "strip_width").v,
     strip_height |-> MemberOf(json, "strip_height").v,
     total_items_placed |-> MemberOf(json, "total_items_placed").v,
     layouts |-> MemberOf(json, "layouts").v,
     utilization |-> MemberOf(json, "utilization").v,
     computation_time_secs |-> MemberOf(json, "computation_time_secs").v,
     status |-> OptionField(json, "status"),
     items_requested |-> OptionField(json, "items_requested"),
     unplaced_item_ids |-> VecFieldDefault(json, "unplaced_item_ids"),
     svg_string |-> IF kind = "tauri" THEN OptionField(json, "svg_string") ELSE None]

\* Reports to serialize: what from_solution builds, with the name and the time
\* added and svg_string set by the caller or not, and values of the struct
\* whose status or items_requested is None.
StructKinds == { "tauri", "cli" }
ReportOf(instance, solution, kind, svg, known) ==
    LET r == FromSolution(solution, instance)
    IN [instance_name |-> "instance", strip_width |-> r.strip_width, strip_height |-> r.strip_height,
        total_items_placed |-> r.total_items_placed, layouts |-> r.layouts, utilization |-> r.utilization,
        computation_time_secs |-> 1,
        status |-> IF known THEN r.status ELSE None,
        items_requested |-> IF known THEN r.items_requested ELSE None,
        unplaced_item_ids |-> r.unplaced_item_ids,
        svg_string |-> IF kind = "tauri" THEN svg ELSE None]

\* Option::or
OrSome(o, v) == IF IsSome(o) THEN o ELSE Some(v)

JsonClasses == {"ok", "not_json", "not_instance"}
OptLimits == { None } \cup { Some(d) : d \in Durations }
OptSeeds == { None } \cup { Some(x) : x \in Seeds }


VARIABLES
    cells,          \* cell -> [stop, deadline]: the state behind the two Arcs
    alloc,          \* cells in use
    h,              \* thread -> the cell its handle points to (0: no handle)
    pc,             \* thread -> where it is inside a terminator call
    arg,            \* thread -> the duration of its new_timeout call in progress
    last,           \* the terminator call completed last: who, what, its result
    quiet,          \* thread -> no other thread wrote its cell during its call
    resets,         \* cell -> reset() calls completed on it
    stopRequested,  \* terminate() has returned on a handle and no reset() began since
    now,            \* Instant::now()
    timeoutPrinted  \* static TIMEOUT_PRINTED

VARIABLES
    entry,          \* the entry point of the invocation in progress
    rpc,            \* where the invocation is
    inp,            \* what the caller passed in
    cfg,            \* the NestingConfig built from it
    badText,        \* the instance text that failed to deserialize
    calls,          \* calls made by this invocation: run_nesting, from_str, import, optimize
    optArms,        \* new_timeout calls the optimizer has issued
    arming,         \* the orchestrator's own new_timeout calls and the deadline they left
    runRes,         \* what run_nesting returned
    result,         \* what the entry point returned to its caller
    phases,         \* sparrow_config.expl_cfg / cmpr_cfg time limits of this invocation
    seeding         \* the seed of the random source and the seed the log shows

VARIABLES
    applied         \* the function applied last: its name, its input, its output

termVars == << cells, alloc, h, pc, arg, last, quiet, resets, stopRequested, now, timeoutPrinted >>
runVars == << entry, rpc, inp, cfg, badText, calls, optArms, arming, runRes, result, phases, seeding >>
vars == << cells, alloc, h, pc, arg, last, quiet, resets, stopRequested, now, timeoutPrinted,
           entry, rpc, inp, cfg, badText, calls, optArms, arming, runRes, result, phases,
           seeding, applied >>

NoCall == [by |-> 0, op |-> "none", val |-> "none"]
Call(t, o, v) == [by |-> t, op |-> o, val |-> v]

\* A write to cell c by thread u lands inside every other call in progress on c.
Disturb(u, c) == [t \in Threads |-> IF t # u /\ h[t] = c /\ pc[t] # "idle" THEN FALSE ELSE quiet[t]]
Done(t, q) == [q EXCEPT ![t] = TRUE]

Ready(t) == h[t] # 0 /\ pc[t] = "idle"

\* let term = NativeTerminator::new(); held by thread 1.
TermInit ==
    /\ cells = [c \in Cells |-> TermNew]
    /\ alloc = 1
    /\ h = [t \in Threads |-> IF t = 1 THEN 1 ELSE 0]
    /\ pc = [t \in Threads |-> "idle"]
    /\ arg = [t \in Threads |-> 0]
    /\ last = NoCall
    /\ quiet = [t \in Threads |-> TRUE]
    /\ resets = [c \in Cells |-> 0]
    /\ stopRequested = FALSE
    /\ now = 0
    /\ timeoutPrinted = 0

NoInput == [time_limit |-> None, json |-> "ok", importOk |-> TRUE]
NoConfig == [time_limit |-> None, seed |-> None]
NoSeeding == [rng |-> None, logged |-> None]
NoCalls == [run |-> 0, deser |-> 0, imp |-> 0, opt |-> 0]
NoArming == [count |-> 0, deadline |-> None]
NoValue == [kind |-> "none", err |-> << >>]

RunInit ==
    /\ entry = "none"
    /\ rpc = "idle"
    /\ inp = NoInput
    /\ cfg = NoConfig
    /\ badText = << >>
    /\ calls = NoCalls
    /\ optArms = 0
    /\ arming = NoArming
    /\ runRes = NoValue
    /\ result = NoValue
    /\ phases = NoPhases
    /\ seeding = NoSeeding

NoApplied == [op |-> "none", arg |-> << >>, out |-> << >>]
Applied(o, a, v) == [op |-> o, arg |-> a, out |-> v]

Init == TermInit /\ RunInit /\ applied = NoApplied

\* ------------------------------------------- terminator calls, by threads
\* get_handle() as a deep copy instead of a clone of the two Arcs.
GetHandleCopy(t, u) ==
    /\ pc[t] = "idle"
    /\ t # u
    /\ h[u] # 0
    /\ alloc < MaxCells
    /\ alloc' = alloc + 1
    /\ cells' = [cells EXCEPT ![alloc + 1] = cells[h[u]]]
    /\ h' = [h EXCEPT ![t] = alloc + 1]
    /\ UNCHANGED << pc, arg, last, quiet, resets, stopRequested, now, timeoutPrinted >>
    /\ UNCHANGED runVars
    /\ UNCHANGED applied

\* let t = u.get_handle();  (self.clone(): both Arcs are shared)
GetHandle(t, u) ==
    /\ pc[t] = "idle"
    /\ t # u
    /\ h[u] # 0
    /\ h' = [h EXCEPT ![t] = h[u]]
    /\ UNCHANGED << cells, alloc, pc, arg, last, quiet, resets, stopRequested, now, timeoutPrinted >>
    /\ UNCHANGED runVars
    /\ UNCHANGED applied

\* terminate(): one SeqCst store. `last` notes the flag the store overwrote.
Terminate(t) ==
    /\ Ready(t)
    /\ cells' = [cells EXCEPT ![h[t]] = TerminateEffect(@)]
    /\ last' = Call(t, "terminate", cells[h[t]].stop)
    /\ quiet' = Disturb(t, h[t])
    /\ stopRequested' = TRUE
    /\ UNCHANGED << alloc, h, pc, arg, resets, now, timeoutPrinted >>
    /\ UNCHANGED runVars
    /\ UNCHANGED applied

\* is_terminated(), the stop.load(): true ends the call.
IsTerminatedLoad(t) ==
    /\ Ready(t)
    /\ IF StopLoad(cells[h[t]])
          THEN /\ last' = Call(t, "is_terminated", TRUE)
               /\ pc' = pc
          ELSE /\ last' = last
               /\ pc' = [pc EXCEPT ![t] = "it_deadline"]
    /\ UNCHANGED << cells, alloc, h, arg, quiet, resets, stopRequested, now, timeoutPrinted >>
    /\ UNCHANGED runVars
    /\ UNCHANGED applied

\* is_terminated(), the deadline read.
IsTerminatedDeadline(t) ==
    /\ pc[t] = "it_deadline"
    /\ last' = Call(t, "is_terminated", DeadlinePassed(cells[h[t]], now))
    /\ pc' = [pc EXCEPT ![t] = "idle"]
    /\ quiet' = Done(t, quiet)
    /\ UNCHANGED << cells, alloc, h, arg, resets, stopRequested, now, timeoutPrinted >>
    /\ UNCHANGED runVars
    /\ UNCHANGED applied

\* kill(), the stop.load(): true ends the call.
KillLoad(t) ==
    /\ Ready(t)
    /\ IF StopLoad(cells[h[t]])
          THEN /\ last' = Call(t, "kill", TRUE)
               /\ pc' = pc
          ELSE /\ last' = last
               /\ pc' = [pc EXCEPT ![t] = "kill_deadline"]
    /\ UNCHANGED << cells, alloc, h, arg, quiet, resets, stopRequested, now, timeoutPrinted >>
    /\ UNCHANGED runVars
    /\ UNCHANGED applied

\* kill(), the deadline read; a passed deadline also counts in TIMEOUT_PRINTED.
KillDeadline(t) ==
    /\ pc[t] = "kill_deadline"
    /\ last' = Call(t, "kill", DeadlinePassed(cells[h[t]], now))
    /\ timeoutPrinted' = IF DeadlinePassed(cells[h[t]], now)
                            THEN BumpPrinted(timeoutPrinted) ELSE timeoutPrinted
    /\ pc' = [pc EXCEPT ![t] = "idle"]
    /\ quiet' = Done(t, quiet)
    /\ UNCHANGED << cells, alloc, h, arg, resets, stopRequested, now >>
    /\ UNCHANGED runVars
    /\ UNCHANGED applied

\* new_timeout(duration), the presence check under the read lock. The read
\* guard is dropped at the end of the `if let`, before the write lock is taken.
NewTimeoutCheck(t, d) ==
    /\ Ready(t)
    /\ IF DeadlineAlreadySet(cells[h[t]])
          THEN /\ last' = Call(t, "new_timeout", "ignored")
               /\ UNCHANGED << pc, arg >>
          ELSE /\ last' = last
               /\ pc' = [pc EXCEPT ![t] = "nt_write"]
               /\ arg' = [arg EXCEPT ![t] = d]
    /\ UNCHANGED << cells, alloc, h, quiet, resets, stopRequested, now, timeoutPrinted >>
    /\ UNCHANGED runVars
    /\ UNCHANGED applied

\* new_timeout(duration), the write under the write lock.
NewTimeoutWrite(t) ==
    /\ pc[t] = "nt_write"
    /\ cells' = [cells EXCEPT ![h[t]] = InstallDeadline(@, now, arg[t])]
    /\ last' = Call(t, "new_timeout", "set")
    /\ pc' = [pc EXCEPT ![t] = "idle"]
    /\ arg' = [arg EXCEPT ![t] = 0]
    /\ quiet' = Done(t, Disturb(t, h[t]))
    /\ UNCHANGED << alloc, h, resets, stopRequested, now, timeoutPrinted >>
    /\ UNCHANGED runVars
    /\ UNCHANGED applied

\* timeout_at(): one read under the read lock.
TimeoutAt(t) ==
    /\ Ready(t)
    /\ last' = Call(t, "timeout_at", TimeoutAtValue(cells[h[t]]))
    /\ UNCHANGED << cells, alloc, h, pc, arg, quiet, resets, stopRequested, now, timeoutPrinted >>
    /\ UNCHANGED runVars
    /\ UNCHANGED applied

\* reset(), the stop.store(false).
ResetStop(t) ==
    /\ Ready(t)
    /\ resets[h[t]] < MaxResets
    /\ cells' = [cells EXCEPT ![h[t]] = ResetStopEffect(@)]
    /\ pc' = [pc EXCEPT ![t] = "reset_deadline"]
    /\ quiet' = Disturb(t, h[t])
    /\ stopRequested' = FALSE
    /\ UNCHANGED << alloc, h, arg, last, resets, now, timeoutPrinted >>
    /\ UNCHANGED runVars
    /\ UNCHANGED applied

\* reset(), the *deadline = None under the write lock.
ResetDeadline(t) ==
    /\ pc[t] = "reset_deadline"
    /\ cells' = [cells EXCEPT ![h[t]] = ResetDeadlineEffect(@)]
    /\ resets' = [resets EXCEPT ![h[t]] = IF @ < MaxResets THEN @ + 1 ELSE @]
    /\ last' = Call(t, "reset", "none")
    /\ pc' = [pc EXCEPT ![t] = "idle"]
    /\ quiet' = Done(t, Disturb(t, h[t]))
    /\ UNCHANGED << alloc, h, arg, stopRequested, now, timeoutPrinted >>
    /\ UNCHANGED runVars
    /\ UNCHANGED applied

\* The clock advances.
Tick ==
    /\ now < MaxTime
    /\ now' = now + 1
    /\ UNCHANGED << cells, alloc, h, pc, arg, last, quiet, resets, stopRequested, timeoutPrinted >>
    /\ UNCHANGED runVars
    /\ UNCHANGED applied

Next ==
    \/ \E t \in Threads : \E u \in Threads : GetHandle(t, u)
    \/ \E t \in Threads : Terminate(t)
    \/ \E t \in Threads : IsTerminatedLoad(t)
    \/ \E t \in Threads : IsTerminatedDeadline(t)
    \/ \E t \in Threads : KillLoad(t)
    \/ \E t \in Threads : KillDeadline(t)
    \/ \E t \in Threads : \E d \in Durations : NewTimeoutCheck(t, d)
    \/ \E t \in Threads : NewTimeoutWrite(t)
    \/ \E t \in Threads : TimeoutAt(t)
    \/ \E t \in Threads : ResetStop(t)
    \/ \E t \in Threads : ResetDeadline(t)
    \/ Tick

Spec == Init /\ [][Next]_vars

\* The same threads on a clock that keeps advancing (Instant::now() is
\* monotonic and the threads sleep or work in finite steps).
LiveSpec == Init /\ [][Next]_vars /\ WF_vars(Tick)

\* ------------------------------------------------- one run, step by step
\* The run thread is thread 1 and its terminator is cell 1. Nothing else holds
\* a handle during a run, so each of its terminator calls is one step.
RunFresh(term) ==
    /\ cells' = [cells EXCEPT ![1] = term]
    /\ resets' = [resets EXCEPT ![1] = 0]
    /\ stopRequested' = FALSE
    /\ last' = NoCall
    /\ badText' = << >>
    /\ calls' = NoCalls
    /\ optArms' = 0
    /\ arming' = NoArming
    /\ runRes' = NoValue
    /\ result' = NoValue
    /\ phases' = NoPhases
    /\ seeding' = NoSeeding

\* run_nesting_integrated -> spawn_blocking -> run_nesting_engine, up to the
\* construction of the config, the listener and the terminator.
EngineStart ==
    /\ rpc \in {"idle", "done"}
    /\ \E tl \in OptLimits : \E js \in JsonClasses : \E io \in BOOLEAN : \E sd \in OptSeeds :
          /\ inp' = [time_limit |-> tl, json |-> js, importOk |-> io]
          /\ cfg' = [time_limit |-> OrSome(tl, DefaultTimeLimit), seed |-> sd]
    /\ entry' = "engine"
    /\ rpc' = "arm"
    /\ RunFresh(TermNew)
    /\ UNCHANGED << alloc, h, pc, arg, quiet, now, timeoutPrinted, applied >>

\* if let Some(time_limit) = config.time_limit { terminator.new_timeout(..) }
EngineArm ==
    /\ rpc = "arm"
    /\ IF IsSome(cfg.time_limit)
          THEN /\ cells' = [cells EXCEPT ![1] = NewTimeoutValue(@, now, Unwrap(cfg.time_limit))]
               /\ arming' = [count |-> arming.count + 1, deadline |-> Some(now + Unwrap(cfg.time_limit))]
               /\ last' = Call(1, "new_timeout", IF DeadlineAlreadySet(cells[1]) THEN "ignored" ELSE "set")
          ELSE UNCHANGED << cells, arming, last >>
    /\ rpc' = "parse"
    /\ UNCHANGED << alloc, h, pc, arg, quiet, resets, stopRequested, now, timeoutPrinted >>
    /\ UNCHANGED << entry, inp, cfg, badText, calls, optArms, runRes, result >>
    /\ UNCHANGED << phases, seeding, applied >>

\* The CLI's main up to its call of run_nesting: the input must be JSON, the
\* config takes args.timeout, the terminator is NativeTerminator::new().
CliStart ==
    /\ rpc \in {"idle", "done"}
    /\ \E tl \in Durations \cup {CliDefaultTimeout} : \E js \in JsonClasses : \E io \in BOOLEAN : \E sd \in OptSeeds :
          /\ inp' = [time_limit |-> Some(tl), json |-> js, importOk |-> io]
          /\ cfg' = [time_limit |-> Some(tl), seed |-> sd]
          /\ RunFresh(NativeTerminatorNew)
          /\ IF js = "not_json"
                THEN /\ rpc' = "done"
                     /\ result' = Err(<< "Input file is not valid JSON" >>)
                ELSE /\ rpc' = "parse"
                     /\ result' = NoValue
    /\ entry' = "cli"
    /\ UNCHANGED << alloc, h, pc, arg, quiet, now, timeoutPrinted, applied >>

\* run_nesting, serde_json::from_str::<ExtSPInstance>(json_str).
RunParse ==
    /\ rpc = "parse"
    /\ calls' = [calls EXCEPT !.run = @ + 1, !.deser = @ + 1]
    /\ \E text \in Texts :
          IF inp.json = "ok"
             THEN /\ rpc' = "configure"
                  /\ UNCHANGED << badText, runRes >>
             ELSE /\ badText' = text
                  /\ runRes' = IF entry = "engine" THEN DeserFailure(text) ELSE DeserFailureCore(text)
                  /\ rpc' = IF runRes'.kind = "panic" THEN "unwind" ELSE AfterFailure("parse")
    /\ UNCHANGED termVars
    /\ UNCHANGED << entry, inp, cfg, optArms, arming, result >>
    /\ UNCHANGED << phases, seeding, applied >>

\* run_nesting, from the sparrow config to the random source.
RunConfigure ==
    /\ rpc = "configure"
    /\ rpc' = "import"
    /\ \E r \in RatioPairs : phases' = PlanBudgets(cfg.time_limit, r)
    /\ \E drawn \in Seeds : \E verbose \in BOOLEAN :
          seeding' = [rng |-> Some(SeedUsed(cfg.seed, drawn)),
                      logged |-> IF Enabled(SeedLogLevel(cfg.seed), LevelFilterOf(entry, verbose))
                                    THEN Some(SeedLogged(cfg.seed, drawn)) ELSE None]
    /\ UNCHANGED termVars
    /\ UNCHANGED << entry, inp, cfg, badText, calls, optArms, arming, runRes, result >>
    /\ UNCHANGED applied

\* run_nesting, jagua_rs::probs::spp::io::import(..).context(..)?
RunImport ==
    /\ rpc = "import"
    /\ calls' = [calls EXCEPT !.imp = @ + 1]
    /\ IF inp.importOk
          THEN /\ rpc' = "invoke"
               /\ runRes' = runRes
          ELSE /\ rpc' = AfterFailure("import")
               /\ runRes' = Err(WithContext(ImportContext, ImportError))
    /\ UNCHANGED termVars
    /\ UNCHANGED << entry, inp, cfg, badText, optArms, arming, result >>
    /\ UNCHANGED << phases, seeding, applied >>

\* run_nesting, the call of sparrow's optimize(..).
OptInvoke ==
    /\ rpc = "invoke"
    /\ calls' = [calls EXCEPT !.opt = @ + 1]
    /\ rpc' = "optimizing"
    /\ UNCHANGED termVars
    /\ UNCHANGED << entry, inp, cfg, badText, optArms, arming, runRes, result >>
    /\ UNCHANGED << phases, seeding, applied >>

\* Inside optimize: a phase asks for its own timeout.
OptNewTimeout(d) ==
    /\ rpc = "optimizing"
    /\ optArms < MaxOptArms
    /\ optArms' = optArms + 1
    /\ cells' = [cells EXCEPT ![1] = IF entry = "cli" THEN NativeNewTimeout(@, now, d)
                                                       ELSE NewTimeoutValue(@, now, d)]
    /\ last' = Call(1, "new_timeout", IF cells'[1] = cells[1] THEN "ignored" ELSE "set")
    /\ UNCHANGED << alloc, h, pc, arg, quiet, resets, stopRequested, now, timeoutPrinted >>
    /\ UNCHANGED << entry, rpc, inp, cfg, badText, calls, arming, runRes, result >>
    /\ UNCHANGED << phases, seeding, applied >>

\* Inside optimize: the search loop polls kill().
OptKill ==
    /\ rpc = "optimizing"
    /\ last' = Call(1, "kill", IF entry = "cli" THEN NativeKill(cells[1], now)
                                                 ELSE KillValue(cells[1], now))
    /\ timeoutPrinted' = IF entry = "engine" /\ ~StopLoad(cells[1]) /\ DeadlinePassed(cells[1], now)
                            THEN BumpPrinted(timeoutPrinted) ELSE timeoutPrinted
    /\ UNCHANGED << cells, alloc, h, pc, arg, quiet, resets, stopRequested, now >>
    /\ UNCHANGED runVars
    /\ UNCHANGED applied

\* optimize returns its solution; run_nesting returns Ok(NestingResult).
OptReturn ==
    /\ rpc = "optimizing"
    /\ runRes' = Ok
    /\ rpc' = "returned"
    /\ UNCHANGED termVars
    /\ UNCHANGED << entry, inp, cfg, badText, calls, optArms, arming, result >>
    /\ UNCHANGED << phases, seeding, applied >>

\* optimize panics: the worker unwinds.
OptPanic ==
    /\ rpc = "optimizing"
    /\ runRes' = Panic(OptimizerAbort)
    /\ rpc' = "unwind"
    /\ UNCHANGED termVars
    /\ UNCHANGED << entry, inp, cfg, badText, calls, optArms, arming, result >>
    /\ UNCHANGED << phases, seeding, applied >>

\* run_nesting_engine after run_nesting, and run_nesting_integrated after the
\* join: Ok(output), "Nesting failed: ..", or "Task join error: ..".
EngineFinish ==
    /\ entry = "engine"
    /\ rpc \in {"returned", "unwind"}
    /\ result' = CASE runRes.kind = "ok" -> Ok
                   [] runRes.kind = "err" -> Err(FormatNestingFailed(runRes.err))
                   [] runRes.kind = "panic" -> Err(FormatJoinError(runRes.err))
    /\ rpc' = "done"
    /\ UNCHANGED termVars
    /\ UNCHANGED << entry, inp, cfg, badText, calls, optArms, arming, runRes >>
    /\ UNCHANGED << phases, seeding, applied >>

\* The CLI's main after run_nesting(..)?: the report is written, the error is
\* returned from main, or the panic ends the process.
CliFinish ==
    /\ entry = "cli"
    /\ rpc \in {"returned", "unwind"}
    /\ result' = CASE runRes.kind = "ok" -> Ok
                   [] runRes.kind = "err" -> Err(runRes.err)
                   [] runRes.kind = "panic" -> [kind |-> "abort", err |-> runRes.err]
    /\ rpc' = "done"
    /\ UNCHANGED termVars
    /\ UNCHANGED << entry, inp, cfg, badText, calls, optArms, arming, runRes >>
    /\ UNCHANGED << phases, seeding, applied >>

RunNext ==
    \/ EngineStart
    \/ EngineArm
    \/ CliStart
    \/ RunParse
    \/ RunConfigure
    \/ RunImport
    \/ OptInvoke
    \/ \E d \in Durations : OptNewTimeout(d)
    \/ OptKill
    \/ OptReturn
    \/ OptPanic
    \/ EngineFinish
    \/ CliFinish
    \/ Tick

RunSpec == Init /\ [][RunNext]_vars

\* --------------------------------------------- runs that can be cancelled
\* A caller of the library calls run_nesting itself (pub use nesting::
\* run_nesting) with a terminator it made, after handing a get_handle() clone
\* to another thread (thread 2). run_nesting_engine keeps its terminator in a
\* local, so no handle of an engine run ever reaches another thread.
DirectStart ==
    /\ rpc \in {"idle", "done"}
    /\ \E tl \in OptLimits : \E js \in JsonClasses : \E io \in BOOLEAN : \E sd \in OptSeeds :
          /\ inp' = [time_limit |-> tl, json |-> js, importOk |-> io]
          /\ cfg' = [time_limit |-> tl, seed |-> sd]
    /\ entry' = "direct"
    /\ rpc' = "parse"
    /\ RunFresh(TermNew)
    /\ h' = [h EXCEPT ![2] = 1]
    /\ UNCHANGED << alloc, pc, arg, quiet, now, timeoutPrinted, applied >>

\* The other thread calls terminate() on its handle at some point of the run.
Cancel ==
    /\ entry = "direct"
    /\ rpc \notin {"idle", "done"}
    /\ ~cells[1].stop
    /\ Terminate(2)

\* The caller has the Result of run_nesting, or unwinds with its panic.
DirectFinish ==
    /\ entry = "direct"
    /\ rpc \in {"returned", "unwind"}
    /\ result' = CASE runRes.kind = "ok" -> Ok
                   [] runRes.kind = "err" -> Err(runRes.err)
                   [] runRes.kind = "panic" -> [kind |-> "abort", err |-> runRes.err]
    /\ rpc' = "done"
    /\ UNCHANGED termVars
    /\ UNCHANGED << entry, inp, cfg, badText, calls, optArms, arming, runRes >>
    /\ UNCHANGED << phases, seeding, applied >>

\* One invocation from the start of the process, at any time of the clock.
FirstEngineRun == rpc = "idle" /\ EngineStart
FirstDirectRun == rpc = "idle" /\ DirectStart

RunLiveNext ==
    \/ FirstEngineRun
    \/ EngineArm
    \/ FirstDirectRun
    \/ Cancel
    \/ RunParse
    \/ RunConfigure
    \/ RunImport
    \/ OptInvoke
    \/ \E d \in Durations : OptNewTimeout(d)
    \/ OptKill
    \/ OptReturn
    \/ OptPanic
    \/ EngineFinish
    \/ DirectFinish
    \/ Tick

\* The clock advances; each sequential step of a run is taken; the optimizer
\* returns once kill() is true.
RunLiveSpec ==
    /\ Init
    /\ [][RunLiveNext]_vars
    /\ WF_vars(Tick)
    /\ WF_vars(EngineArm)
    /\ WF_vars(RunParse)
    /\ WF_vars(RunConfigure)
    /\ WF_vars(RunImport)
    /\ WF_vars(OptInvoke)
    /\ WF_vars(OptReturn /\ KillValue(cells[1], now))
    /\ WF_vars(EngineFinish)
    /\ WF_vars(DirectFinish)

\* ------------------------------------------- the layer's pure functions
\* One of them is applied to an input; input and output are recorded.
ApplyPlanBudgets ==
    /\ applied = NoApplied
    /\ \E limit \in { None } \cup { Some(l) : l \in Limits } : \E r \in RatioPairs :
          applied' = Applied("plan_budgets", [limit |-> limit, ratios |-> r], PlanBudgets(limit, r))
    /\ UNCHANGED << termVars, runVars >>

\* NestingOutput::from_solution(&solution, &instance, name, time)
ApplyFromSolution ==
    /\ applied = NoApplied
    /\ \E instance \in Instances : \E solution \in { x \in Solutions : FitsStrip(x, instance) } :
          applied' = Applied("from_solution", [instance |-> instance, solution |-> solution],
                             FromSolution(solution, instance))
    /\ UNCHANGED << termVars, runVars >>

\* expand_svg_viewbox(&svg_string, margin)
ApplyExpandSvgViewbox ==
    /\ applied = NoApplied
    /\ \E around \in Surroundings : \E shape \in Shapes : \E fields \in FieldLists :
       \E spacing \in Spacings : \E margin \in Margins :
          LET svg == around.pre \o AttributeText(shape, ValueText(fields, spacing)) \o around.post
          IN applied' = Applied("expand_svg_viewbox",
                                [svg |-> svg, margin |-> margin, pre |-> around.pre, post |-> around.post,
                                 shape |-> shape, fields |-> fields, spacing |-> spacing],
                                ExpandSvgViewbox(svg, margin))
    /\ UNCHANGED << termVars, runVars >>

\* Two independent runs on the same instance with the same config; each draws
\* its own random number when the config has no seed.
ApplyRunTwice ==
    /\ applied = NoApplied
    /\ \E instance \in Instances : \E seed \in { None } \cup { Some(x) : x \in Seeds } :
       \E drawn1 \in Seeds : \E drawn2 \in Seeds :
          applied' = Applied("run_twice",
                             [instance |-> instance, seed |-> seed, drawn |-> << drawn1, drawn2 >>],
                             << RunReport(instance, seed, drawn1), RunReport(instance, seed, drawn2) >>)
    /\ UNCHANGED << termVars, runVars >>

\* serde_json::to_string(&output) and serde_json::from_str of what it wrote.
ApplySerialize ==
    /\ applied = NoApplied
    /\ \E instance \in Instances : \E solution \in { x \in Solutions : FitsStrip(x, instance) /\ x.strip_width = 4 } :
       \E kind \in StructKinds : \E svg \in { None, Some("<svg/>") } : \E known \in BOOLEAN :
          LET r == ReportOf(instance, solution, kind, svg, known)
          IN applied' = Applied("serialize", [kind |-> kind, report |-> r],
                                [json |-> Serialize(kind, r), back |-> Deserialize(kind, Serialize(kind, r))])
    /\ UNCHANGED << termVars, runVars >>

\* The sparrow configuration run_nesting builds, with and without early
\* termination, from the same defaults and the same remaining config.
ApplySparrowConfig ==
    /\ applied = NoApplied
    /\ \E kind \in StructKinds : \E defaults \in DefaultSparrowConfigs :
       \E limit \in { None, Some(1), Some(300) } : \E n \in 1..MaxWorkers : \E r \in RatioPairs :
          LET config == [time_limit |-> limit, n_workers |-> n, use_early_termination |-> FALSE]
          IN applied' = Applied("sparrow_config",
                                [kind |-> kind, defaults |-> defaults, config |-> config, ratios |-> r],
                                [off |-> BuildSparrowConfig(kind, defaults, config, r),
                                 on |-> BuildSparrowConfig(kind, defaults,
                                                           [config EXCEPT !.use_early_termination = TRUE], r)])
    /\ UNCHANGED << termVars, runVars >>

FnNext ==
    \/ ApplyPlanBudgets
    \/ ApplyFromSolution
    \/ ApplyExpandSvgViewbox
    \/ ApplyRunTwice
    \/ ApplySerialize
    \/ ApplySparrowConfig

FnSpec == Init /\ [][FnNext]_vars

\* ------------------------------------------------------------------ claims
\* should_stop as the contract states it: the stop flag is set, or a deadline
\* is set and the clock is past it.
ShouldStop(c, n) == c.stop \/ (IsSome(c.deadline) /\ n > Unwrap(c.deadline))

HandleCells == { h[t] : t \in { u \in Threads : h[u] # 0 } }

\* C1: a new_timeout call made on a terminator whose deadline is already set
\* is a no-op whatever its duration: the call ends at its presence check, it
\* is reported as ignored, and the terminator's state is what it was.
C1_ArmOnce ==
    [][\A t \in Threads : \A d \in Durations :
          (Ready(t) /\ IsSome(cells[h[t]].deadline) /\ NewTimeoutCheck(t, d))
              => /\ cells' = cells
                 /\ pc'[t] = "idle"
                 /\ last' = Call(t, "new_timeout", "ignored")]_vars

\* A second arm attempt was ignored and the deadline is still set.
C1_Witness ==
    /\ last.op = "new_timeout"
    /\ last.val = "ignored"
    /\ IsSome(cells[h[last.by]].deadline)

\* C2: kill() and is_terminated() agree in every state and are true exactly
\* when the stop flag is set or a set deadline has passed; a terminator as
\* constructed gives false; a call no write interleaves with returns that value.
C2_ShouldStopIff ==
    [][/\ \A c \in HandleCells :
             /\ KillValue(cells[c], now) = ShouldStop(cells[c], now)
             /\ IsTerminatedValue(cells[c], now) = KillValue(cells[c], now)
       /\ ~KillValue(TermNew, now) /\ ~IsTerminatedValue(TermNew, now)
       /\ \A t \in Threads :
             /\ (KillLoad(t) /\ pc'[t] = "idle")
                   => last' = Call(t, "kill", ShouldStop(cells[h[t]], now))
             /\ (IsTerminatedLoad(t) /\ pc'[t] = "idle")
                   => last' = Call(t, "is_terminated", ShouldStop(cells[h[t]], now))
             /\ (KillDeadline(t) /\ quiet[t])
                   => last' = Call(t, "kill", ShouldStop(cells[h[t]], now))
             /\ (IsTerminatedDeadline(t) /\ quiet[t])
                   => last' = Call(t, "is_terminated", ShouldStop(cells[h[t]], now))]_vars

\* kill() returned true by expiry alone: no stop flag, the deadline passed.
C2_Witness ==
    /\ last.op = "kill"
    /\ last.val = TRUE
    /\ ~cells[h[last.by]].stop
    /\ IsSome(cells[h[last.by]].deadline)
    /\ now > Unwrap(cells[h[last.by]].deadline)

\* C3: all handles refer to one stop flag and one deadline, and once
\* terminate() has returned on a handle, a kill() or is_terminated() call
\* begun on any handle before the next reset() returns true.
C3_StopVisible ==
    [][/\ \A t \in Threads : \A u \in Threads :
             (h'[t] # 0 /\ h'[u] # 0) => h'[t] = h'[u]
       /\ \A t \in Threads :
             /\ (stopRequested /\ KillLoad(t)) => last' = Call(t, "kill", TRUE)
             /\ (stopRequested /\ IsTerminatedLoad(t)) => last' = Call(t, "is_terminated", TRUE)
             /\ Terminate(t) => stopRequested']_vars

\* A handle obtained by get_handle() saw the stop another handle requested.
C3_Witness ==
    /\ last.op = "is_terminated"
    /\ last.val = TRUE
    /\ last.by # 1
    /\ stopRequested
    /\ \E t \in Threads : t # last.by /\ h[t] = h[last.by]

\* C4: a deadline that is set is never replaced by another value (only a
\* reset() clears it), however new_timeout calls of several threads interleave.
C4_ArmCriticalSection ==
    [][\A c \in Cells :
          (IsSome(cells[c].deadline) /\ cells'[c].deadline # cells[c].deadline)
              => \E t \in Threads : h[t] = c /\ ResetDeadline(t)]_vars

\* C5: terminate() sets the stop flag and leaves the deadline; called on a
\* terminator that is already stopped it changes nothing, so that a second
\* call leaves the flag, the deadline and should_stop as the first left them.
C5_TerminateIdempotent ==
    [][\A t \in Threads :
          Terminate(t) =>
             LET once == cells'[h[t]]
                 twice == TerminateEffect(once)
             IN /\ once.stop
                /\ once.deadline = cells[h[t]].deadline
                /\ twice = once
                /\ KillValue(twice, now) = KillValue(once, now)
                /\ IsTerminatedValue(twice, now) = IsTerminatedValue(once, now)
                /\ cells[h[t]].stop => cells' = cells]_vars

\* terminate() was called on a terminator whose stop flag was already set.
C5_Witness ==
    /\ last.op = "terminate"
    /\ last.val = TRUE
    /\ cells[h[last.by]].stop

\* C6: a reset() no write interleaves with leaves the terminator as new()
\* makes it (no stop flag, no deadline, should_stop false); the next
\* new_timeout then installs now + duration; and only reset() ever clears the
\* stop flag or the deadline.
C6_ResetToIdle ==
    [][/\ \A t \in Threads :
             /\ (ResetDeadline(t) /\ quiet[t])
                   => /\ cells'[h[t]] = TermNew
                      /\ ~KillValue(cells'[h[t]], now')
                      /\ ~IsTerminatedValue(cells'[h[t]], now')
             /\ \A d \in Durations :
                   (Ready(t) /\ cells[h[t]] = TermNew /\ NewTimeoutCheck(t, d))
                       => pc'[t] = "nt_write" /\ arg'[t] = d
             /\ NewTimeoutWrite(t) => cells'[h[t]].deadline = Some(now + arg[t])
       /\ \A c \in Cells :
             /\ (cells[c].stop /\ ~cells'[c].stop)
                   => \E t \in Threads : h[t] = c /\ ResetStop(t)
             /\ (IsSome(cells[c].deadline) /\ ~IsSome(cells'[c].deadline))
                   => \E t \in Threads : h[t] = c /\ ResetDeadline(t)]_vars

\* After a completed reset() a new_timeout call installed a deadline again.
C6_Witness ==
    /\ last.op = "new_timeout"
    /\ last.val = "set"
    /\ resets[h[last.by]] > 0
    /\ IsSome(cells[h[last.by]].deadline)

\* --------------------------------------------------------- claims, runs
AtOrPastOptimizer == rpc = "optimizing" \/ (calls.opt > 0 /\ rpc \in {"returned", "unwind", "done"})

\* C7: in every run the terminator's deadline is armed exactly once, to the
\* full overall time limit, before the optimizer is invoked, and it still has
\* that value while the optimizer runs and when it returns, whatever
\* new_timeout calls the optimizer makes; no run reaches the optimizer with an
\* unarmed terminator.
C7_ArmedBeforeOptimizer ==
    AtOrPastOptimizer =>
        /\ arming.count = 1
        /\ IsSome(arming.deadline)
        /\ cells[1].deadline = arming.deadline

\* C8: a run calls the optimizer exactly once when it succeeds and at most
\* once in any case; after a failed deserialization or import, or a panic,
\* neither the run, the import nor the optimizer call is made again.
C8_OptimizerOnce ==
    /\ calls.run <= 1 /\ calls.deser <= 1 /\ calls.imp <= 1 /\ calls.opt <= 1
    /\ runRes.kind = "ok" => calls.opt = 1
    /\ result.kind = "ok" => calls.opt = 1
    /\ (runRes.kind = "err" /\ rpc \in {"returned", "done"}) => calls.opt = 0
    /\ (rpc = "done" /\ entry = "engine") => calls.run = 1
    /\ (rpc = "done" /\ inp.json = "ok" /\ ~inp.importOk) => calls.imp = 1 /\ calls.opt = 0

C8_Witness == rpc = "done" /\ result.kind = "ok" /\ calls.opt = 1 /\ calls.imp = 1 /\ calls.run = 1

\* C9: whenever the instance text fails to deserialize, whatever its length
\* and characters, run_nesting returns the malformed-instance error carrying
\* the parse error; it never panics while cutting the 500-byte prefix.
C9_MalformedAlwaysErr ==
    (calls.deser = 1 /\ inp.json # "ok" /\ rpc \in {"returned", "unwind", "done"}) =>
        /\ runRes.kind = "err"
        /\ runRes.err = WithContext(MalformedContext, ParseError)

\* C10: the caller of run_nesting_integrated gets an error that starts with
\* the join prefix exactly when the blocking task did not complete, and every
\* error the run returned (malformed instance, import failure) starts with the
\* run prefix, so neither can be taken for the other.
C10_JoinDistinct ==
    (rpc = "done" /\ entry = "engine") =>
        /\ result.kind = "ok" <=> runRes.kind = "ok"
        /\ runRes.kind = "panic" <=> (result.kind = "err" /\ Head(result.err) = "Task join error: ")
        /\ runRes.kind = "err" <=> (result.kind = "err" /\ Head(result.err) = "Nesting failed: ")
        /\ runRes.kind = "err" => result.err = << "Nesting failed: ", Head(runRes.err) >>
        /\ runRes.kind = "err" => Head(runRes.err) \in {MalformedContext, ImportContext}

C10_Witness ==
    /\ rpc = "done" /\ entry = "engine" /\ runRes.kind = "panic"
    /\ result = Err(<< "Task join error: ", "task panicked" >>)

\* ------------------------------------------- claims, budgets and reports
\* C11: for every overall limit L > 0 in whole seconds, the exploration and
\* compression durations are both non-negative and their sum is at most L.
C11_BudgetWithinLimit ==
    (applied.op = "plan_budgets" /\ IsSome(applied.arg.limit)) =>
        /\ DurLeq(DurSecs(0), applied.out.expl)
        /\ DurLeq(DurSecs(0), applied.out.cmpr)
        /\ DurLeq(DurAdd(applied.out.expl, applied.out.cmpr), DurSecs(Unwrap(applied.arg.limit)))

\* C12: when the caller supplies no overall time limit, the run uses the
\* default of 600: the deadline is armed 600 from now and the phase budgets
\* are 600 x r_explore and 600 x r_compress, also through run_nesting_engine.
C12_DefaultIs600 ==
    [][ /\ (inp.time_limit = None /\ EngineArm) =>
               cells'[1].deadline = Some(now + DefaultOverall)
        /\ (inp.time_limit = None /\ RunConfigure) =>
               /\ phases'.expl = MulDurF32(DefaultOverall, phases'.ratios[1])
               /\ phases'.cmpr = MulDurF32(DefaultOverall, phases'.ratios[2]) ]_vars

\* What a claim about the reducer reads off its input.
ReducerApplied == applied.op = "from_solution"
ItemIds(instance) == { instance.items[k].id : k \in 1..Len(instance.items) }
CountOf(seq, v) == Cardinality({ k \in 1..Len(seq) : seq[k] = v })
PlacedOfId(solution, id) == Cardinality({ k \in 1..Len(solution.placed_items) : solution.placed_items[k].item_id = id })
RequestedOfId(instance, id) == LET k == CHOOSE j \in 1..Len(instance.items) : instance.items[j].id = id IN instance.items[k].qty
RECURSIVE SumQty(_)
SumQty(items) == IF items = << >> THEN 0 ELSE Head(items).qty + SumQty(Tail(items))
\* The optimizer's invariant: placed ids are ids of the instance, and no id is
\* placed more often than requested.
WithinRequest(instance, solution) ==
    /\ \A k \in 1..Len(solution.placed_items) : solution.placed_items[k].item_id \in ItemIds(instance)
    /\ \A id \in ItemIds(instance) : PlacedOfId(solution, id) <= RequestedOfId(instance, id)

\* C13 as stated: for every instance and every solution, also one that
\* over-places an id or places an id absent from the instance,
\* total_items_placed + length(unplaced_item_ids) = items_requested.
C13_PlacedPlusUnplaced ==
    ReducerApplied =>
        applied.out.total_items_placed + Len(applied.out.unplaced_item_ids) = Unwrap(applied.out.items_requested)

\* C13 amended: the equation holds for every solution that places only ids of
\* the instance and no id more often than requested; items_requested is the
\* sum of the requested quantities.
C13_PlacedPlusUnplacedWithinRequest ==
    ReducerApplied =>
        /\ applied.out.items_requested = Some(SumQty(applied.arg.instance.items))
        /\ applied.out.total_items_placed = Len(applied.arg.solution.placed_items)
        /\ WithinRequest(applied.arg.instance, applied.arg.solution) =>
              applied.out.total_items_placed + Len(applied.out.unplaced_item_ids)
                  = Unwrap(applied.out.items_requested)

C13_Witness ==
    /\ ReducerApplied
    /\ WithinRequest(applied.arg.instance, applied.arg.solution)
    /\ applied.out.total_items_placed = 2
    /\ Len(applied.out.unplaced_item_ids) = 2

\* C14: status is "complete" iff the number of placed records equals
\* items_requested, and "partial" otherwise, with fewer or with more records.
C14_StatusIffEqual ==
    ReducerApplied =>
        /\ applied.out.status \in { Some("complete"), Some("partial") }
        /\ applied.out.status = Some("complete") <=>
              Len(applied.arg.solution.placed_items) = SumQty(applied.arg.instance.items)

\* C15: utilization is in [0, 1] whenever strip_width x strip_height > 0, also
\* for partial solutions, and exactly 0 when the strip area is 0.
C15_UtilizationInUnit ==
    ReducerApplied =>
        LET area == applied.arg.solution.strip_width * applied.arg.instance.fixed_height
            u == applied.out.utilization
        IN /\ u.den > 0
           /\ area > 0 => (0 <= u.num /\ u.num <= u.den)
           /\ area = 0 => u.num = 0

\* C16: unplaced_item_ids holds exactly max(0, requested(i) - placed(i)) copies
\* of each instance id i and no other id, also when an id is over-placed or a
\* placed record names an id absent from the instance.
C16_UnplacedSaturating ==
    ReducerApplied =>
        LET instance == applied.arg.instance
            solution == applied.arg.solution
            un == applied.out.unplaced_item_ids
        IN /\ \A id \in ItemIds(instance) :
                 CountOf(un, id) = IF RequestedOfId(instance, id) > PlacedOfId(solution, id)
                                      THEN RequestedOfId(instance, id) - PlacedOfId(solution, id)
                                      ELSE 0
           /\ \A k \in 1..Len(un) : un[k] \in ItemIds(instance)

C16_Witness ==
    /\ ReducerApplied
    /\ \E id \in ItemIds(applied.arg.instance) :
          PlacedOfId(applied.arg.solution, id) > RequestedOfId(applied.arg.instance, id)
    /\ \E k \in 1..Len(applied.arg.solution.placed_items) :
          applied.arg.solution.placed_items[k].item_id \notin ItemIds(applied.arg.instance)
    /\ Len(applied.out.unplaced_item_ids) > 0

\* What a claim about the postprocessor reads off its input. The viewport
\* declaration of a text is its first viewBox= followed by a quoted, non-empty
\* value.
ExpandApplied == applied.op = "expand_svg_viewbox"
GivenValue == ValueText(applied.arg.fields, applied.arg.spacing)
GivenIsDeclaration == applied.arg.shape = "attribute" /\ GivenValue # << >>
LaterFollows == applied.arg.post = << " " >> \o LaterAttribute \o << "x" >>
NumberOf(f) ==
    CASE f = << "0" >> -> 0
      [] f = << "1", "0", "0" >> -> 100
      [] f = << "5", "0" >> -> 50
      [] f = << "-", "5" >> -> 0 - 5
IsNumber(f) == f \in { << "0" >>, << "1", "0", "0" >>, << "5", "0" >>, << "-", "5" >> }
GivenWellFormed ==
    /\ GivenIsDeclaration
    /\ Len(applied.arg.fields) = 4
    /\ \A k \in 1..4 : IsNumber(applied.arg.fields[k])
\* The only other declaration a text here can have: the later attribute, when
\* the given piece is no declaration and does not swallow its opening quote.
LaterIsDeclaration ==
    /\ LaterFollows
    /\ ~GivenIsDeclaration
    /\ applied.arg.shape # "unterminated"
Expanded(a, b, c, d, m) ==
    << VB, QUOTE >> \o JoinFields(<< FormatF64(a - m), FormatF64(b - m), FormatF64(c + 2 * m), FormatF64(d + 2 * m) >>, << " " >>)
       \o << QUOTE >>

\* C17: on a text whose viewport declaration is four whitespace-separated
\* numbers min_x min_y width height, the result is the text with that
\* declaration replaced by (min_x - margin) (min_y - margin)
\* (width + 2 margin) (height + 2 margin) and all else as in the input,
\* later declarations included.
C17_ExpandReplacesDeclaration ==
    ExpandApplied =>
        /\ GivenWellFormed =>
              applied.out = applied.arg.pre
                            \o Expanded(NumberOf(applied.arg.fields[1]), NumberOf(applied.arg.fields[2]),
                                        NumberOf(applied.arg.fields[3]), NumberOf(applied.arg.fields[4]),
                                        applied.arg.margin)
                            \o applied.arg.post
        /\ LaterIsDeclaration =>
              applied.out = applied.arg.pre \o AttributeText(applied.arg.shape, GivenValue) \o << " " >>
                            \o Expanded(0, 0, 5, 5, applied.arg.margin) \o << "x" >>

C17_Witness ==
    /\ ExpandApplied
    /\ applied.arg.fields = << << "0" >>, << "0" >>, << "1", "0", "0" >>, << "5", "0" >> >>
    /\ applied.arg.shape = "attribute"
    /\ applied.arg.margin = 10
    /\ LaterFollows
    /\ applied.out = << "x", VB, QUOTE, "-", "1", "0", " ", "-", "1", "0", " ", "1", "2", "0", " ", "7", "0", QUOTE, " " >>
                     \o LaterAttribute \o << "x" >>

\* C18: the result is the input, unchanged, whenever the text has no viewport
\* declaration or its declaration is malformed: not exactly four fields, or a
\* field that is not a number.
C18_ExpandLeavesMalformed ==
    (ExpandApplied /\ ~GivenWellFormed /\ ~LaterIsDeclaration) => applied.out = applied.arg.svg

C18_Witness ==
    /\ ExpandApplied
    /\ GivenIsDeclaration
    /\ Len(applied.arg.fields) = 4
    /\ applied.arg.fields[3] = << "x" >>
    /\ LaterFollows
    /\ applied.out = applied.arg.svg

C20_OptionalFieldsOmitted ==
    applied.op = "serialize" =>
        LET r == applied.arg.report
            json == applied.out.json
        IN /\ HasMember(json, "status") <=> r.status # None
           /\ HasMember(json, "items_requested") <=> r.items_requested # None
           /\ HasMember(json, "svg_string") <=> r.svg_string # None
           /\ HasMember(json, "unplaced_item_ids") <=> r.unplaced_item_ids # << >>
           /\ \A i \in 1..Len(json) : json[i].v.t # "null"
           /\ \A i \in 1..Len(json) : json[i].k = "unplaced_item_ids" => Len(json[i].v.v) > 0
           /\ ~HasMember(json, "unplaced_item_ids") => applied.out.back.unplaced_item_ids = << >>
           /\ applied.out.back = r

C20_Witness ==
    /\ applied.op = "serialize"
    /\ applied.arg.report.status = None
    /\ applied.arg.report.svg_string = None
    /\ applied.arg.report.unplaced_item_ids = << >>
    /\ applied.arg.report.total_items_placed > 0
    /\ ~HasMember(applied.out.json, "unplaced_item_ids")
    /\ ~HasMember(applied.out.json, "status")
    /\ applied.out.back.unplaced_item_ids = << >>

\* ------------------------------------------- claims, later terminator ones
\* should_stop does not fall back: a cell on which kill() is true keeps it
\* true over every step that is not part of a reset().
C21_Latched ==
    [][\A c \in HandleCells :
          (KillValue(cells[c], now) /\ ~KillValue(cells'[c], now'))
              => \E t \in Threads : h[t] = c /\ (ResetStop(t) \/ ResetDeadline(t))]_vars

\* Before the deadline passes and with no stop request, kill() and
\* is_terminated() are false.
C21_FalseBefore ==
    [](\A c \in HandleCells :
          (~cells[c].stop /\ (IsSome(cells[c].deadline) => now <= Unwrap(cells[c].deadline)))
              => ~KillValue(cells[c], now) /\ ~IsTerminatedValue(cells[c], now))

\* A deadline armed inside the followed span of the clock is passed, unless
\* it is cleared or replaced first.
C21_Expires ==
    \A c \in Cells : \A v \in 0..(MaxTime - 1) :
        (cells[c].deadline = Some(v)) ~> (KillValue(cells[c], now) \/ cells[c].deadline # Some(v))

\* C21: once a deadline is armed and time keeps advancing should_stop becomes
\* true; once should_stop is true, by stop request or by expiry, it stays
\* true on every later call until reset(); before the deadline passes and
\* with no stop request it is false.
C21_StopLatchedUntilReset == C21_Expires /\ C21_Latched /\ C21_FalseBefore

\* C25: the stop flag and the deadline are independent: terminate() leaves
\* the deadline as it is, new_timeout leaves the stop flag as it is, and the
\* reads kill(), is_terminated() and timeout_at() change neither.
C25_FlagAndDeadlineIndependent ==
    [][\A t \in Threads :
          /\ Terminate(t) => \A c \in Cells : cells'[c].deadline = cells[c].deadline
          /\ ((\E d \in Durations : NewTimeoutCheck(t, d)) \/ NewTimeoutWrite(t))
                => \A c \in Cells : cells'[c].stop = cells[c].stop
          /\ (KillLoad(t) \/ KillDeadline(t) \/ IsTerminatedLoad(t) \/ IsTerminatedDeadline(t) \/ TimeoutAt(t))
                => cells' = cells]_vars

\* A deadline was installed on a terminator that was already stopped, and
\* the stop flag is still set.
C25_Witness ==
    /\ last.op = "new_timeout"
    /\ last.val = "set"
    /\ stopRequested
    /\ cells[h[last.by]].stop
    /\ IsSome(cells[h[last.by]].deadline)


\* ------------------------------------------------- claims, later run ones
RunEnded == rpc \in {"returned", "unwind", "done"}
InstanceRejected == calls.deser = 1 /\ (inp.json # "ok" \/ (calls.imp = 1 /\ ~inp.importOk))

\* C22: the optimizer is invoked only after deserialization and import of
\* the instance have both succeeded; when either fails the run returns an
\* error, the optimizer is never called, no report is produced and the
\* terminator's stop flag is what it was.
C22_OptimizerAfterImport ==
    /\ calls.opt > 0 => (calls.deser = 1 /\ inp.json = "ok" /\ calls.imp = 1 /\ inp.importOk)
    /\ InstanceRejected => (calls.opt = 0 /\ result.kind # "ok" /\ ~cells[1].stop /\ ~stopRequested)
    /\ (InstanceRejected /\ RunEnded) => runRes.kind = "err"

\* ---------------------------------------- claims, configuration and seed
\* The two phase configurations with the two early-termination fields erased.
OtherFields(sc) ==
    [sc EXCEPT !.expl_cfg.max_conseq_failed_attempts = "erased", !.cmpr_cfg.shrink_decay = "erased"]

\* C23: without early termination the failed-attempts cap of exploration
\* and the shrink-decay strategy of compression are the defaults; with it
\* the cap is set and the strategy is failure-based decay; and nothing else
\* in the configuration differs between the two cases.
C23_EarlyTerminationFrame ==
    applied.op = "sparrow_config" =>
        LET d == applied.arg.defaults
            off == applied.out.off
            on == applied.out.on
        IN /\ off.expl_cfg.max_conseq_failed_attempts = d.expl_cfg.max_conseq_failed_attempts
           /\ off.cmpr_cfg.shrink_decay = d.cmpr_cfg.shrink_decay
           /\ IsSome(on.expl_cfg.max_conseq_failed_attempts)
           /\ on.expl_cfg.max_conseq_failed_attempts = Some(CapDefault)
           /\ on.cmpr_cfg.shrink_decay = DecayDefault
           /\ Head(on.cmpr_cfg.shrink_decay) = "FailureBased"
           /\ OtherFields(on) = OtherFields(off)

\* The defaults had no cap and time-based decay, and early termination
\* changed both while the time limits and worker counts stayed.
C23_Witness ==
    /\ applied.op = "sparrow_config"
    /\ applied.arg.defaults.expl_cfg.max_conseq_failed_attempts = None
    /\ applied.arg.defaults.cmpr_cfg.shrink_decay = << "TimeBased" >>
    /\ applied.out.off.expl_cfg.max_conseq_failed_attempts = None
    /\ applied.out.on.expl_cfg.max_conseq_failed_attempts # applied.out.off.expl_cfg.max_conseq_failed_attempts
    /\ applied.out.on.cmpr_cfg.shrink_decay # applied.out.off.cmpr_cfg.shrink_decay
    /\ applied.out.on.expl_cfg.time_limit = applied.out.off.expl_cfg.time_limit
    /\ applied.out.on.expl_cfg.separator_config.n_workers = MaxWorkers

\* C24: in a run whose configuration has no seed, the seed drawn for the
\* random source handed to the optimizer is in the log before the optimizer
\* is invoked, and the logged value is the one used; with an explicit seed
\* the random source is seeded with exactly that seed.
C24_SeedSurfaced ==
    AtOrPastOptimizer =>
        /\ IsSome(seeding.rng)
        /\ cfg.seed = None => (IsSome(seeding.logged) /\ seeding.logged = seeding.rng)
        /\ IsSome(cfg.seed) => seeding.rng = cfg.seed

C24_Witness ==
    /\ rpc = "optimizing"
    /\ cfg.seed = None
    /\ seeding.rng = Some(MaxSeed)
    /\ seeding.logged = Some(MaxSeed)

\* ------------------------------------------- claims, later reducer ones
\* C26: for every instance and solution the status is "complete" exactly
\* when unplaced_item_ids is empty: never "complete" with unplaced
\* identifiers listed, never "partial" with none.
C26_CompleteIffNoneUnplaced ==
    ReducerApplied =>
        (applied.out.status = Some("complete") <=> applied.out.unplaced_item_ids = << >>)

\* C28: layouts has exactly one entry per placed-item record of the
\* solution, in the solution's order and with the record's identifier, and
\* total_items_placed is the length of layouts.
C28_OneLayoutPerRecord ==
    ReducerApplied =>
        LET placed == applied.arg.solution.placed_items
            layouts == applied.out.layouts
        IN /\ Len(layouts) = Len(placed)
           /\ \A k \in 1..Len(placed) :
                 /\ layouts[k].item_id = placed[k].item_id
                 /\ layouts[k].position_x = placed[k].x
                 /\ layouts[k].position_y = placed[k].y
           /\ applied.out.total_items_placed = Len(layouts)

\* Three records, among them one id twice and two different ids in a row.
C28_Witness ==
    /\ ReducerApplied
    /\ Len(applied.arg.solution.placed_items) = 3
    /\ applied.arg.solution.placed_items[1].item_id # applied.arg.solution.placed_items[2].item_id
    /\ applied.arg.solution.placed_items[1].item_id = applied.arg.solution.placed_items[3].item_id
    /\ applied.out.total_items_placed = 3
    /\ applied.out.layouts[2].item_id = applied.arg.solution.placed_items[2].item_id

\* --------------------------------------------------- claims, termination
RunUnderWay == rpc \notin {"idle", "done"}

\* C27: every run started through run_nesting_engine returns, a report or
\* an error, given that time advances and the optimizer returns once kill()
\* is true: past import its terminator has a deadline, a deadline inside the
\* followed span of the clock leads to the end of the run, and so does a
\* terminate() call of another thread at any point of a run.
C27_RunReturns ==
    /\ []((entry = "engine" /\ rpc \in {"invoke", "optimizing"}) => IsSome(cells[1].deadline))
    /\ \A v \in 0..(MaxTime - 1) :
          (entry = "engine" /\ RunUnderWay /\ cells[1].deadline = Some(v)) ~> (rpc = "done")
    /\ (entry = "engine" /\ RunUnderWay /\ rpc # "optimizing") ~> (rpc \in {"optimizing", "done"})
    /\ (RunUnderWay /\ cells[1].stop) ~> (rpc = "done")

\* An engine run ended after kill() had turned true on the passed deadline.
C27_Witness ==
    /\ entry = "engine"
    /\ rpc = "done"
    /\ calls.opt = 1
    /\ result.kind = "ok"
    /\ last = Call(1, "kill", TRUE)
    /\ ~cells[1].stop
    /\ now > Unwrap(cells[1].deadline)

====
